---- MODULE Spec2Model ----
(***************************************************************************)
(* go-callvis: the analysis session (render options, focus resolution,    *)
(* image cache) and the HTTP handler that drives it, as a state machine.  *)
(* Go strings are TLA+ strings; the library functions the code calls on   *)
(* them are computed character by character.                              *)
(***************************************************************************)
EXTENDS Integers, Sequences, FiniteSets, TLC

(***************************************************************************)
(* Go's strings and path/filepath functions used by the code               *)
(***************************************************************************)

\* s[i:j] of Go, 1-based and inclusive here
Sub(s, i, j) == SubSeq(s, i, j)

Char(s, i) == SubSeq(s, i, i)

\* unicode.IsSpace on the characters the inputs are built from
IsSpace(c) == c \in {" ", "\t"}

RECURSIVE TrimLeft(_)
TrimLeft(s) ==
    IF Len(s) > 0 /\ IsSpace(Char(s, 1)) THEN TrimLeft(Sub(s, 2, Len(s))) ELSE s

RECURSIVE TrimRight(_)
TrimRight(s) ==
    IF Len(s) > 0 /\ IsSpace(Char(s, Len(s))) THEN TrimRight(Sub(s, 1, Len(s) - 1)) ELSE s

\* strings.TrimSpace
TrimSpace(s) == TrimRight(TrimLeft(s))

\* strings.Split(s, sep) for a one-character sep: always at least one field
RECURSIVE SplitFrom(_, _, _, _)
SplitFrom(s, sep, start, i) ==
    IF i > Len(s) THEN << Sub(s, start, Len(s)) >>
    ELSE IF Char(s, i) = sep
         THEN << Sub(s, start, i - 1) >> \o SplitFrom(s, sep, i + 1, i + 1)
         ELSE SplitFrom(s, sep, start, i + 1)

Split(s, sep) == SplitFrom(s, sep, 1, 1)

\* strings.Contains(s, c) for a one-character c
Contains(s, c) == \E i \in 1..Len(s) : Char(s, i) = c

\* strings.HasSuffix
HasSuffix(s, suf) ==
    Len(s) >= Len(suf) /\ Sub(s, Len(s) - Len(suf) + 1, Len(s)) = suf

\* strings.Join
RECURSIVE JoinStr(_, _)
JoinStr(parts, sep) ==
    IF Len(parts) = 0 THEN ""
    ELSE IF Len(parts) = 1 THEN parts[1]
    ELSE parts[1] \o sep \o JoinStr(Tail(parts), sep)

\* filepath.Clean on a slash-separated path: the stack of kept elements
RECURSIVE CleanElems(_, _, _)
CleanElems(elems, rooted, stack) ==
    IF Len(elems) = 0 THEN stack
    ELSE LET e == Head(elems)
             rest == Tail(elems)
         IN  IF e = "" \/ e = "." THEN CleanElems(rest, rooted, stack)
             ELSE IF e = ".."
                  THEN IF Len(stack) > 0 /\ stack[Len(stack)] # ".."
                       THEN CleanElems(rest, rooted, Sub(stack, 1, Len(stack) - 1))
                       ELSE IF rooted THEN CleanElems(rest, rooted, stack)
                            ELSE CleanElems(rest, rooted, Append(stack, ".."))
                  ELSE CleanElems(rest, rooted, Append(stack, e))

Clean(p) ==
    IF p = "" THEN "."
    ELSE LET rooted == Char(p, 1) = "/"
             body == JoinStr(CleanElems(Split(p, "/"), rooted, << >>), "/")
         IN  IF rooted THEN "/" \o body
             ELSE IF body = "" THEN "." ELSE body

\* filepath.Join of two elements: empty elements are ignored, the rest is cleaned
Join(x, y) ==
    IF x = "" /\ y = "" THEN ""
    ELSE IF x = "" THEN Clean(y)
    ELSE IF y = "" THEN Clean(x)
    ELSE Clean(x \o "/" \o y)

\* strings.TrimRightFunc(s, r != '\\' && r != '/'): cut back to the last separator
RECURSIVE TrimToSep(_)
TrimToSep(s) ==
    IF Len(s) > 0 /\ Char(s, Len(s)) \notin {"/", "\\"}
    THEN TrimToSep(Sub(s, 1, Len(s) - 1)) ELSE s


\* strings.Contains(s, t) for any t
HasSubstr(s, t) ==
    \E i \in 1..(Len(s) - Len(t) + 1) : Sub(s, i, i + Len(t) - 1) = t

(***************************************************************************)
(* renderOpts and the Analysis methods, as functions of the values they    *)
(* read and write.  A Go slice is a sequence, nil and empty alike; an     *)
(* error is its message, "" for nil.                                      *)
(***************************************************************************)

\* OptsSetup: the refresh and algo arguments are not stored
OptsSetup(cacheDir, focus, group, ignore, include, limit, nointer, refresh, nostd, algo) ==
    [cacheDir |-> cacheDir,
     focus    |-> focus,
     group    |-> << group >>,
     ignore   |-> << ignore >>,
     include  |-> << include >>,
     limit    |-> << limit >>,
     nointer  |-> nointer,
     refresh  |-> FALSE,
     nostd    |-> nostd,
     algo     |-> ""]

\* the zero renderOpts, standing for the nil opts pointer of a new Analysis
NilOpts ==
    [cacheDir |-> "", focus |-> "", group |-> << >>, ignore |-> << >>,
     include |-> << >>, limit |-> << >>, nointer |-> FALSE, refresh |-> FALSE,
     nostd |-> FALSE, algo |-> ""]

\* a call graph: the algorithm that built it and the roots it was given; the
\* nil graph
NoGraph == [algo |-> "", roots |-> << >>]

\* NewAnalysis: only outputFormat is set.  prog is the sequence of packages the
\* SSA program can import, pkgs the sequence of initial packages; a package is
\* [path, name, hasMain]
NewAnalysis(outputFormat) ==
    [opts         |-> NilOpts,
     prog         |-> << >>,
     pkgs         |-> << >>,
     mainPkg      |-> "",
     callgraph    |-> NoGraph,
     outputFormat |-> outputFormat]

GroupValues == {"pkg", "type"}

\* the loop over the group tokens: opts.group is assigned after every append
RECURSIVE GroupLoop(_, _, _)
GroupLoop(tokens, groupBy, group) ==
    IF Len(tokens) = 0 THEN [group |-> group, err |-> ""]
    ELSE LET g == TrimSpace(Head(tokens))
         IN  IF g = "" THEN GroupLoop(Tail(tokens), groupBy, group)
             ELSE IF g \notin GroupValues
                  THEN [group |-> group, err |-> "invalid group option"]
                  ELSE GroupLoop(Tail(tokens), Append(groupBy, g), Append(groupBy, g))

\* the loop over the tokens of ignore, include and limit
RECURSIVE PathLoop(_, _)
PathLoop(tokens, paths) ==
    IF Len(tokens) = 0 THEN paths
    ELSE LET p == TrimSpace(Head(tokens))
         IN  PathLoop(Tail(tokens), IF p # "" THEN Append(paths, p) ELSE paths)

SplitPaths(list) ==
    IF Len(list) > 0 THEN PathLoop(Split(list[1], ","), << >>) ELSE list

\* ProcessListArgs: [opts, err]; group[0] of an empty group list would panic,
\* but no operation ever leaves the group list empty
ProcessListArgs(opts) ==
    LET after(g) ==
            IF g.err # ""
            THEN [opts |-> [opts EXCEPT !.group = g.group], err |-> g.err]
            ELSE [opts |-> [opts EXCEPT !.group = g.group,
                                        !.ignore = SplitPaths(opts.ignore),
                                        !.include = SplitPaths(opts.include),
                                        !.limit = SplitPaths(opts.limit)],
                  err  |-> ""]
    IN  after(GroupLoop(Split(opts.group[1], ","), << >>, opts.group))
\* OverrideScalars with std read as a boolean: std=false keeps nostd
OverrideScalars_StdByValue(opts, r) ==
    [opts EXCEPT !.focus   = IF r.f = "all" THEN "" ELSE IF r.f # "" THEN r.f ELSE @,
                 !.nostd   = IF r.std \notin {"", "false"} THEN FALSE ELSE @,
                 !.nointer = IF r.nointer # "" THEN TRUE ELSE @,
                 !.refresh = IF r.refresh # "" THEN TRUE ELSE @]

\* OverrideScalars with refresh taken from each request: one without the
\* parameter clears it
OverrideScalars_RefreshPerRequest(opts, r) ==
    [opts EXCEPT !.focus   = IF r.f = "all" THEN "" ELSE IF r.f # "" THEN r.f ELSE @,
                 !.nostd   = IF r.std # "" THEN FALSE ELSE @,
                 !.nointer = IF r.nointer # "" THEN TRUE ELSE @,
                 !.refresh = r.refresh # ""]

\* the scalar overrides of OverrideByHTTP; r holds r.FormValue of every key
OverrideScalars(opts, r) ==
    [opts EXCEPT !.focus   = IF r.f = "all" THEN "" ELSE IF r.f # "" THEN r.f ELSE @,
                 !.nostd   = IF r.std # "" THEN FALSE ELSE @,
                 !.nointer = IF r.nointer # "" THEN TRUE ELSE @,
                 !.refresh = IF r.refresh # "" THEN TRUE ELSE @]

\* list[0] = v: an index-out-of-range panic on an empty list
ListKeys == << "group", "limit", "ignore", "include" >>

RECURSIVE OverrideLists(_, _, _)
OverrideLists(opts, r, keys) ==
    IF Len(keys) = 0 THEN [opts |-> opts, panic |-> FALSE]
    ELSE LET k == Head(keys)
         IN  IF r[k] = "" THEN OverrideLists(opts, r, Tail(keys))
             ELSE IF Len(opts[k]) = 0 THEN [opts |-> opts, panic |-> TRUE]
             ELSE OverrideLists([opts EXCEPT ![k] = [@ EXCEPT ![1] = r[k]]], r, Tail(keys))

\* OverrideByHTTP: [opts, panic]; what was assigned before a panic stays assigned
OverrideByHTTP(opts, r) == OverrideLists(OverrideScalars(opts, r), r, ListKeys)

(***************************************************************************)
(* Focus resolution and rendering                                          *)
(***************************************************************************)

\* prog.ImportedPackage(path): the packages of that import path, none for nil
ImportedPackage(prog, path) == SelectSeq(prog, LAMBDA p : p.path = path)

\* the loop of Render over a.pkgs collecting the paths of the packages named focus
FoundPaths(pkgs, focus) ==
    LET hits == SelectSeq(pkgs, LAMBDA p : p.name = focus)
    IN  [i \in 1..Len(hits) |-> hits[i].path]
\* ResolveFocus taking the first of several packages of the name
ResolveFocus_FirstMatch(an) ==
    LET fail(msg) == [focusPkg |-> "", err |-> msg, stderr |-> << >>]
        ok(path) == [focusPkg |-> path, err |-> "", stderr |-> << >>]
        byName(focus, found) ==
            IF Len(found) = 0
            THEN fail("focus failed, could not find package: " \o focus)
            ELSE ok(found[1])
    IN  IF an.opts.focus = "" THEN ok("")
        ELSE IF Len(ImportedPackage(an.prog, an.opts.focus)) > 0 THEN ok(an.opts.focus)
        ELSE IF Contains(an.opts.focus, "/") THEN fail("focus failed: <nil>")
        ELSE byName(an.opts.focus, FoundPaths(an.pkgs, an.opts.focus))

\* ResolveFocus putting the candidate paths into the message, none on os.Stderr
ResolveFocus_PathsInMessage(an) ==
    LET fail(msg) == [focusPkg |-> "", err |-> msg, stderr |-> << >>]
        ok(path) == [focusPkg |-> path, err |-> "", stderr |-> << >>]
        byName(focus, found) ==
            IF Len(found) = 0
            THEN fail("focus failed, could not find package: " \o focus)
            ELSE IF Len(found) > 1
                 THEN fail("focus failed, found multiple packages with name: " \o focus
                           \o ": " \o JoinStr(found, ", "))
            ELSE ok(found[1])
    IN  IF an.opts.focus = "" THEN ok("")
        ELSE IF Len(ImportedPackage(an.prog, an.opts.focus)) > 0 THEN ok(an.opts.focus)
        ELSE IF Contains(an.opts.focus, "/") THEN fail("focus failed: <nil>")
        ELSE byName(an.opts.focus, FoundPaths(an.pkgs, an.opts.focus))

\* the focus part of Render: [focusPkg, err, stderr]; focusPkg is the import path
\* of the resolved package, "" for none; stderr the lines written to os.Stderr
ResolveFocus(an) ==
    LET fail(msg, lines) == [focusPkg |-> "", err |-> msg, stderr |-> lines]
        ok(pkg) == [focusPkg |-> pkg.path, err |-> "", stderr |-> << >>]
        byName(focus, found) ==
            IF Len(found) = 0
            THEN fail("focus failed, could not find package: " \o focus, << >>)
            ELSE IF Len(found) > 1
                 THEN fail("focus failed, found multiple packages with name: " \o focus,
                           [i \in 1..Len(found) |-> " - " \o found[i]])
            ELSE IF Len(ImportedPackage(an.prog, found[1])) = 0
                 THEN fail("focus failed: <nil>", << >>)
            ELSE ok(ImportedPackage(an.prog, found[1])[1])
        byPath(focus, ssaPkg) ==
            IF Len(ssaPkg) > 0 THEN ok(ssaPkg[1])
            ELSE IF Contains(focus, "/") THEN fail("focus failed: <nil>", << >>)
            ELSE byName(focus, FoundPaths(an.pkgs, focus))
    IN  IF an.opts.focus = "" THEN [focusPkg |-> "", err |-> "", stderr |-> << >>]
        ELSE byPath(an.opts.focus, ImportedPackage(an.prog, an.opts.focus))

\* output.PrintOutput: the graph text is the arguments it was produced from;
\* it fails when the renderer finds nothing to render (rendErr)
PrintOutput(prog, mainPkg, callgraph, focusPkg, limit, ignore, include, group, nostd, nointer, rendErr) ==
    IF rendErr THEN [dot |-> << >>, err |-> "no renderable content"]
    ELSE [dot |-> << [mainPkg |-> mainPkg, callgraph |-> callgraph,
                      focusPkg |-> focusPkg, limit |-> limit, ignore |-> ignore,
                      include |-> include, group |-> group, nostd |-> nostd,
                      nointer |-> nointer] >>,
          err |-> ""]

\* Render: [dot, err, stderr]; dot is << >> for nil
Render(an, rendErr) ==
    LET printed(fr, po) ==
            IF po.err # ""
            THEN [dot |-> << >>, err |-> "processing failed: " \o po.err,
                  stderr |-> fr.stderr]
            ELSE [dot |-> po.dot, err |-> "", stderr |-> fr.stderr]
        resolved(fr) ==
            IF fr.err # "" THEN [dot |-> << >>, err |-> fr.err, stderr |-> fr.stderr]
            ELSE printed(fr, PrintOutput(an.prog, an.mainPkg, an.callgraph, fr.focusPkg,
                                         an.opts.limit, an.opts.ignore, an.opts.include,
                                         an.opts.group, an.opts.nostd, an.opts.nointer,
                                         rendErr))
    IN  resolved(ResolveFocus(an))

(***************************************************************************)
(* The file system and the image cache.  fs maps the cleaned path of every *)
(* existing entry to [dir, data]; data is the content of a regular file.   *)
(***************************************************************************)

NoFiles == [p \in {} |-> [dir |-> FALSE, data |-> << >>]]

WriteFile(fs, path, data) ==
    LET put(key) ==
            [p \in DOMAIN fs \cup {key} |->
                IF p = key THEN [dir |-> FALSE, data |-> data] ELSE fs[p]]
    IN  put(Clean(path))

\* os.Stat succeeds on files and directories alike
pathExists(fs, path) == Clean(path) \in DOMAIN fs

IsRegular(fs, path) ==
    LET regular(key) == key \in DOMAIN fs /\ ~fs[key].dir
    IN  regular(Clean(path))

\* the content of a regular file
ReadFile(fs, path) ==
    LET read(key) == IF key \in DOMAIN fs THEN fs[key].data ELSE << >>
    IN  read(Clean(path))

\* the directories os.MkdirAll(dir) has to find or make
DirChain(dir) ==
    LET rooted == Len(dir) > 0 /\ Char(dir, 1) = "/"
        elems == CleanElems(Split(dir, "/"), rooted, << >>)
    IN  { (IF rooted THEN "/" ELSE "") \o JoinStr(Sub(elems, 1, i), "/") :
            i \in 1..Len(elems) }

\* os.MkdirAll: [fs, err]; ioErr is a failure of the operating system
MkdirAll(fs, dir, ioErr) ==
    LET make(chain) ==
            IF \E d \in chain : d \in DOMAIN fs /\ ~fs[d].dir
            THEN [fs |-> fs, err |-> "mkdir " \o dir \o ": not a directory"]
            ELSE [fs  |-> [p \in DOMAIN fs \cup chain |->
                              IF p \in DOMAIN fs THEN fs[p]
                              ELSE [dir |-> TRUE, data |-> << >>]],
                  err |-> ""]
    IN  IF dir = "" THEN [fs |-> fs, err |-> "mkdir : no such file or directory"]
        ELSE IF ioErr THEN [fs |-> fs, err |-> "mkdir " \o dir \o ": permission denied"]
        ELSE make(DirChain(dir))

\* copyFile: [fs, err]
copyFile(fs, src, dst) ==
    LET copy(s, d) ==
            IF s \notin DOMAIN fs
            THEN [fs |-> fs, err |-> "stat " \o src \o ": no such file or directory"]
            ELSE IF fs[s].dir
                 THEN [fs |-> fs, err |-> src \o " is not a regular file"]
            ELSE IF d \in DOMAIN fs /\ fs[d].dir
                 THEN [fs |-> fs, err |-> "open " \o dst \o ": is a directory"]
            ELSE [fs  |-> [p \in DOMAIN fs \cup {d} |-> IF p = d THEN fs[s] ELSE fs[p]],
                  err |-> ""]
    IN  copy(Clean(src), Clean(dst))

FocusOrAll(opts) == IF opts.focus = "" THEN "all" ELSE opts.focus

\* the path FindCachedImg looks up
CachePath(an) ==
    Join(an.opts.cacheDir, FocusOrAll(an.opts) \o "." \o an.outputFormat)
\* FindCachedImg without the look at the refresh flag
FindCachedImg_IgnoresRefresh(an, fs) ==
    LET lookup(absFilePath) ==
            IF ~pathExists(fs, absFilePath) THEN "" ELSE absFilePath
    IN  IF an.opts.cacheDir = "" THEN "" ELSE lookup(CachePath(an))

\* FindCachedImg: the cached path, "" for none
FindCachedImg(an, fs) ==
    LET lookup(absFilePath) ==
            IF ~pathExists(fs, absFilePath) THEN "" ELSE absFilePath
    IN  IF an.opts.cacheDir = "" \/ an.opts.refresh THEN ""
        ELSE lookup(CachePath(an))

\* the path CacheImg copies the image to
CacheFilePath(an) ==
    Join(an.opts.cacheDir, FocusOrAll(an.opts)) \o "." \o an.outputFormat

\* CacheImg: [fs, err]
CacheImg(an, fs, img, ioErr) ==
    LET made(md) == IF md.err # "" THEN md ELSE copyFile(md.fs, img, CacheFilePath(an))
    IN  IF an.opts.cacheDir = "" \/ img = "" THEN [fs |-> fs, err |-> ""]
        ELSE made(MkdirAll(fs, TrimToSep(Join(an.opts.cacheDir, FocusOrAll(an.opts))),
                           ioErr))

\* os.TempDir() with TMPDIR unset
TempDir == "/tmp"

\* runDotToImage: [img, err, fs]; convErr is a failure of the render engine
runDotToImage(fs, outfname, format, dot, convErr) ==
    LET rendered(img) ==
            [img |-> img, err |-> "",
             fs |-> WriteFile(fs, img, << [format |-> format, dot |-> dot] >>)]
    IN  IF convErr THEN [img |-> "", err |-> "render failed", fs |-> fs]
        ELSE IF outfname = ""
             THEN rendered(Join(TempDir, "go-callvis_export." \o format))
             ELSE rendered(outfname \o "." \o format)

\* dot.DotToImage: the external renderer follows the same output path convention
DotToImage(fs, useGraphviz, outfname, format, dot, convErr) ==
    runDotToImage(fs, outfname, format, dot, convErr)

(***************************************************************************)
(* The HTTP handler, one function per step.  A world is what a step reads  *)
(* and writes: [an, fs, flags, rq], rq the request being handled:          *)
(*   pc      the step it is at, "done" once the response is complete       *)
(*   q       the URL path, r.FormValue of every key, and what fails for    *)
(*           this request outside the program (rendErr, convErr, ioErr)    *)
(*   img, output   the handler's local variables                          *)
(*   status, body, panic, stderr   what the request's caller and the      *)
(*           operator get to see                                           *)
(***************************************************************************)

StatusOK == 200
StatusBadRequest == 400
StatusNotFound == 404
StatusInternalServerError == 500

NoBody == [kind |-> "none", text |-> "", data |-> << >>]
TextBody(msg) == [kind |-> "text", text |-> msg, data |-> << >>]
DotBody(dot) == [kind |-> "dot", text |-> "", data |-> dot]

\* http.ServeFile of an existing path: the file's content
FileBody(fs, path) == [kind |-> "file", text |-> path, data |-> ReadFile(fs, path)]

\* a request for "" with no query: the q of a handler slot not in use
NoQuery ==
    [path |-> "", f |-> "", std |-> "", nointer |-> "", refresh |-> "", group |-> "",
     limit |-> "", ignore |-> "", include |-> "", format |-> "",
     rendErr |-> FALSE, convErr |-> FALSE, ioErr |-> FALSE]

IdleRequest ==
    [pc |-> "idle", q |-> NoQuery, img |-> "", output |-> << >>, status |-> 0,
     body |-> NoBody, panic |-> FALSE, stderr |-> << >>]

Respond(rq, status, body) == [rq EXCEPT !.pc = "done", !.status = status, !.body = body]

\* HandlerBegin without the look at the path
HandlerBegin_AnyPath(q) == [IdleRequest EXCEPT !.q = q, !.pc = "override"]

\* handler, up to the lookup of the analysis in the request context, which the
\* middleware has always put there
HandlerBegin(q) ==
    LET rq == [IdleRequest EXCEPT !.q = q]
    IN  IF q.path # "/" /\ ~HasSuffix(q.path, ".svg")
        THEN Respond(rq, StatusNotFound, TextBody("404 page not found"))
        ELSE [rq EXCEPT !.pc = "override"]

\* analysis.OverrideByHTTP(r); a panic ends the handler without a response
HandlerOverride(w) ==
    LET after(o) ==
            [w EXCEPT !.an.opts = o.opts,
                      !.rq = IF o.panic THEN [@ EXCEPT !.pc = "done", !.panic = TRUE]
                             ELSE [@ EXCEPT !.pc = "find"]]
    IN  after(OverrideByHTTP(w.an.opts, w.rq.q))

\* analysis.FindCachedImg() and the serving of a cached image
HandlerFind(w) ==
    LET after(img) ==
            [w EXCEPT !.rq = IF img # ""
                             THEN Respond([@ EXCEPT !.img = img], StatusOK,
                                          FileBody(w.fs, img))
                             ELSE [@ EXCEPT !.pc = "list"]]
    IN  after(FindCachedImg(w.an, w.fs))

\* analysis.ProcessListArgs()
HandlerList(w) ==
    LET after(p) ==
            [w EXCEPT !.an.opts = p.opts,
                      !.rq = IF p.err # ""
                             THEN Respond(@, StatusBadRequest, TextBody("invalid parameters"))
                             ELSE [@ EXCEPT !.pc = "render"]]
    IN  after(ProcessListArgs(w.an.opts))
\* HandlerRender without the format=dot answer
HandlerRender_AlwaysImage(w) ==
    LET answered(rq, r) ==
            IF r.err # ""
            THEN Respond(rq, StatusInternalServerError, TextBody(r.err))
            ELSE [rq EXCEPT !.pc = "convert"]
        after(r) ==
            [w EXCEPT !.rq = answered([@ EXCEPT !.stderr = r.stderr, !.output = r.dot], r)]
    IN  after(Render(w.an, w.rq.q.rendErr))

\* HandlerRender on options of the request's own: the session's, with the f of
\* this request
HandlerRender_OwnFocus(w) ==
    LET answered(rq, r) ==
            IF r.err # ""
            THEN Respond(rq, StatusInternalServerError, TextBody(r.err))
            ELSE IF rq.q.format = "dot"
                 THEN Respond(rq, StatusOK, DotBody(r.dot))
                 ELSE [rq EXCEPT !.pc = "convert"]
        after(r) ==
            [w EXCEPT !.rq = answered([@ EXCEPT !.stderr = r.stderr, !.output = r.dot], r)]
    IN  after(Render([w.an EXCEPT !.opts = OverrideScalars(@, w.rq.q)], w.rq.q.rendErr))

\* analysis.Render(...) and the format=dot answer
HandlerRender(w) ==
    LET answered(rq, r) ==
            IF r.err # ""
            THEN Respond(rq, StatusInternalServerError, TextBody(r.err))
            ELSE IF rq.q.format = "dot"
                 THEN Respond(rq, StatusOK, DotBody(r.dot))
                 ELSE [rq EXCEPT !.pc = "convert"]
        after(r) ==
            [w EXCEPT !.rq = answered([@ EXCEPT !.stderr = r.stderr, !.output = r.dot], r)]
    IN  after(Render(w.an, w.rq.q.rendErr))

\* dot.DotToImage(*graphvizFlag, "", *outputFormat, output)
HandlerConvert(w) ==
    LET after(c) ==
            [w EXCEPT !.fs = c.fs,
                      !.rq = IF c.err # ""
                             THEN Respond(@, StatusInternalServerError, TextBody(c.err))
                             ELSE [@ EXCEPT !.img = c.img, !.pc = "cache"]]
    IN  after(DotToImage(w.fs, w.flags.graphviz, "", w.flags.format, w.rq.output,
                         w.rq.q.convErr))

\* analysis.CacheImg(img)
HandlerCache(w) ==
    LET after(c) ==
            [w EXCEPT !.fs = c.fs,
                      !.rq = IF c.err # ""
                             THEN Respond(@, StatusBadRequest,
                                          TextBody("cache img error: " \o c.err))
                             ELSE [@ EXCEPT !.pc = "serve"]]
    IN  after(CacheImg(w.an, w.fs, w.rq.img, w.rq.q.ioErr))

\* http.ServeFile(w, r, img)
HandlerServe(w) ==
    [w EXCEPT !.rq = Respond(@, StatusOK, FileBody(w.fs, w.rq.img))]

HandlerStep(w) ==
    CASE w.rq.pc = "override" -> HandlerOverride(w)
      [] w.rq.pc = "find"     -> HandlerFind(w)
      [] w.rq.pc = "list"     -> HandlerList(w)
      [] w.rq.pc = "render"   -> HandlerRender(w)
      [] w.rq.pc = "convert"  -> HandlerConvert(w)
      [] w.rq.pc = "cache"    -> HandlerCache(w)
      [] w.rq.pc = "serve"    -> HandlerServe(w)
      [] OTHER                -> w

\* handler from its first step to its response, nothing else running
RECURSIVE HandlerRun(_)
HandlerRun(w) == IF w.rq.pc \in {"done", "idle"} THEN w ELSE HandlerRun(HandlerStep(w))

(***************************************************************************)
(* The logger: InitializeLogger and the sync.Once that guards it.  lg is   *)
(* [done, m, singleton, loggers, c]: the Once (done, and the caller that   *)
(* holds its mutex, 0 for none), the singleton (an index into loggers, 0   *)
(* for nil), the loggers created ([level, sets]: sets counts the SetLevel  *)
(* calls) and the callers ([pc, level, l, n]: where the call is, its       *)
(* argument, the logger it has created, and the calls it has made).        *)
(***************************************************************************)

DebugLevel == -4
InfoLevel == 0
WarnLevel == 4

NumCallers == 2

Callers == 1..NumCallers

NoCall == [pc |-> "idle", level |-> InfoLevel, l |-> 0, n |-> 0]

NoLogger ==
    [done |-> FALSE, m |-> 0, singleton |-> 0, loggers |-> << >>,
     c |-> [k \in Callers |-> NoCall]]

\* a caller enters InitializeLogger(level)
LoggerCall(lg, k, level) ==
    [lg EXCEPT !.c[k] = [@ EXCEPT !.pc = "fast", !.level = level, !.n = @ + 1]]

\* Once.m.Lock() does not block
LockFree_Always(lg) == TRUE

LockFree(lg) == lg.m = 0

\* one step of caller k in InitializeLogger: Once.Do (the load of done, and in
\* doSlow the lock, the second load, f, the deferred store and unlock) and in f
\* log.NewWithOptions, SetLevel and the assignment of singleton
LoggerStep(lg, k) ==
    CASE lg.c[k].pc = "fast" ->
            [lg EXCEPT !.c[k].pc = IF lg.done THEN "idle" ELSE "lock"]
      [] lg.c[k].pc = "lock" ->
            [lg EXCEPT !.m = k, !.c[k].pc = "slow"]
      [] lg.c[k].pc = "slow" ->
            [lg EXCEPT !.c[k].pc = IF lg.done THEN "unlock" ELSE "new"]
      [] lg.c[k].pc = "new" ->
            [lg EXCEPT !.loggers = Append(@, [level |-> InfoLevel, sets |-> 0]),
                       !.c[k].l = Len(lg.loggers) + 1,
                       !.c[k].pc = "setlevel"]
      [] lg.c[k].pc = "setlevel" ->
            [lg EXCEPT !.loggers[lg.c[k].l] =
                           [level |-> lg.c[k].level, sets |-> @.sets + 1],
                       !.c[k].pc = "assign"]
      [] lg.c[k].pc = "assign" ->
            [lg EXCEPT !.singleton = lg.c[k].l, !.c[k].pc = "store"]
      [] lg.c[k].pc = "store" ->
            [lg EXCEPT !.done = TRUE, !.c[k].pc = "unlock"]
      [] lg.c[k].pc = "unlock" ->
            [lg EXCEPT !.m = 0, !.c[k].pc = "idle"]
      [] OTHER -> lg

\* caller k can take its step
LoggerCanStep(lg, k) ==
    /\ lg.c[k].pc # "idle"
    /\ lg.c[k].pc = "lock" => LockFree(lg)

\* a call of InitializeLogger from entry to return, no other caller running
RECURSIVE LoggerRun(_, _)
LoggerRun(lg, k) ==
    IF ~LoggerCanStep(lg, k) THEN lg ELSE LoggerRun(LoggerStep(lg, k), k)

InitializeLogger(lg, k, level) == LoggerRun(LoggerCall(lg, k, level), k)

(***************************************************************************)
(* Startup: main up to the choice between serving and one-shot output      *)
(***************************************************************************)

P(path, name, hasMain) == [path |-> path, name |-> name, hasMain |-> hasMain]

\* mainPackages without the look for a func main
mainPackages_ByNameOnly(pkgs) == SelectSeq(pkgs, LAMBDA p : p.name = "main")

\* mainPackages: the packages named main that have a func main
mainPackages(pkgs) == SelectSeq(pkgs, LAMBDA p : p.name = "main" /\ p.hasMain)

\* DoAnalysis: [an, err]; load is what packages.Load and ssautil.AllPackages give:
\* [err, pkgErrors, prog, pkgs]
DoAnalysis(an, algo, load) ==
    LET mains == mainPackages(load.prog)
        done(mainPkg, graph) ==
            [an  |-> [an EXCEPT !.prog = load.prog, !.pkgs = load.pkgs,
                                !.mainPkg = mainPkg, !.callgraph = graph],
             err |-> ""]
    IN  IF load.err # "" THEN [an |-> an, err |-> load.err]
        ELSE IF load.pkgErrors THEN [an |-> an, err |-> "packages contain errors"]
        ELSE IF algo = "static" THEN done("", [algo |-> "static", roots |-> << >>])
        ELSE IF algo = "cha" THEN done("", [algo |-> "cha", roots |-> << >>])
        ELSE IF algo = "rta"
             THEN IF Len(mains) = 0 THEN [an |-> an, err |-> "no main packages"]
                  ELSE done(mains[1].path,
                            [algo  |-> "rta",
                             roots |-> [i \in 1..Len(mains) |-> mains[i].path]])
        ELSE [an |-> an, err |-> "invalid call graph type: " \o an.opts.algo]

\* the flags as declared: name and default
FlagDefaults ==
    [focus |-> "main", group |-> "pkg", limit |-> "", ignore |-> "", include |-> "",
     nostd |-> FALSE, nointer |-> FALSE, cacheDir |-> "", graphviz |-> FALSE,
     debug |-> TRUE, format |-> "svg",
     tests |-> FALSE, file |-> "", algo |-> "cha", version |-> FALSE]

\* the flags main declares only after flag.Parse() has run: the parse knows none
\* of them, so they keep their defaults, and a command line naming one is a
\* usage error
LateFlags == {"tests", "http", "skipbrowser", "file", "algo", "version"}

\* the flag values main works with, for a command line c
Flags(c) ==
    [focus |-> c.focus, group |-> c.group, limit |-> c.limit, ignore |-> c.ignore,
     include |-> c.include, nostd |-> c.nostd, nointer |-> c.nointer,
     cacheDir |-> c.cacheDir, graphviz |-> c.graphviz, debug |-> FlagDefaults.debug,
     format |-> c.format,
     tests |-> FlagDefaults.tests, file |-> FlagDefaults.file,
     algo |-> FlagDefaults.algo, version |-> FlagDefaults.version]

\* outputDot: [an, fs, err], any error being fatal
outputDot(an, fs, fname, format, useGraphviz, rendErr, convErr) ==
    LET converted(a1, c) == [an |-> a1, fs |-> c.fs, err |-> c.err]
        rendered(a1, r) ==
            IF r.err # "" THEN [an |-> a1, fs |-> fs, err |-> r.err]
            ELSE converted(a1, DotToImage(WriteFile(fs, fname \o ".gv", r.dot),
                                          useGraphviz, fname, format, r.dot, convErr))
        listed(p, a1) ==
            IF p.err # "" THEN [an |-> a1, fs |-> fs, err |-> p.err]
            ELSE rendered(a1, Render(a1, rendErr))
        split(p) == listed(p, [an EXCEPT !.opts = p.opts])
    IN  split(ProcessListArgs(an.opts))

\* main going on to serve whatever DoAnalysis returned
main_IgnoresAnalysisError(c, fs) ==
    LET exit(code, a) == [pc |-> "exit" \o code, an |-> a, fs |-> fs]
        setup(fl, a0) ==
            [pc |-> "serving", an |-> DoAnalysis(a0, fl.algo, c.load).an, fs |-> fs]
        parsed(fl) ==
            IF c.late # {} THEN exit("2", NewAnalysis(""))
            ELSE IF c.nargs # 1 THEN exit("2", NewAnalysis(""))
            ELSE setup(fl, [NewAnalysis(fl.file) EXCEPT
                               !.opts = OptsSetup(fl.cacheDir, fl.focus, fl.group,
                                                  fl.ignore, fl.include, fl.limit,
                                                  fl.nointer, FALSE, fl.nostd, fl.algo)])
    IN  parsed(Flags(c))

\* main: [pc, an, fs].  c is the command line (the values given for the flags
\* declared before the parse, late: the late flags it names, nargs: the number
\* of positional arguments) and what packages.Load finds (load)
main(c, fs) ==
    LET exit(code, a) == [pc |-> "exit" \o code, an |-> a, fs |-> fs]
        oneshot(o) == [pc |-> IF o.err # "" THEN "exit1" ELSE "exit0",
                       an |-> o.an, fs |-> o.fs]
        analysed(fl, d) ==
            IF d.err # "" THEN exit("1", d.an)
            ELSE IF fl.file = "" THEN [pc |-> "serving", an |-> d.an, fs |-> fs]
            ELSE oneshot(outputDot(d.an, fs, fl.file, fl.format, fl.graphviz,
                                   FALSE, FALSE))
        setup(fl, a0) == analysed(fl, DoAnalysis(a0, fl.algo, c.load))
        parsed(fl) ==
            IF c.late # {} THEN exit("2", NewAnalysis(""))
            ELSE IF fl.version THEN exit("0", NewAnalysis(""))
            ELSE IF c.nargs # 1 THEN exit("2", NewAnalysis(""))
            ELSE setup(fl, [NewAnalysis(fl.file) EXCEPT
                               !.opts = OptsSetup(fl.cacheDir, fl.focus, fl.group,
                                                  fl.ignore, fl.include, fl.limit,
                                                  fl.nointer, FALSE, fl.nostd, fl.algo)])
    IN  parsed(Flags(c))

\* the logger main leaves: logger.InitializeLogger is called once the usage
\* checks have passed, with the debug level when the debug flag is set
mainLogger(c) ==
    IF c.late # {} \/ Flags(c).version \/ c.nargs # 1 THEN NoLogger
    ELSE InitializeLogger(NoLogger, 1,
                          IF Flags(c).debug THEN DebugLevel ELSE InfoLevel)

(***************************************************************************)
(* The state machine                                                       *)
(***************************************************************************)

VARIABLES
    pc,     \* main: "start", "serving", or "exit<code>" once the process has exited;
            \* "call" where the methods are called on their own
    cmd,    \* the command line and the program packages.Load finds
    an,     \* the Analysis main creates and every request shares
    fs,     \* the file system
    req,    \* the request each handler goroutine is handling
    nreq,   \* the number of requests received
    ideal,  \* history: [an, fs] as they would be had no failed request been made
    ret,    \* the result of the last method called on its own
    log     \* the logger package: its Once, its singleton, and the callers of
            \* InitializeLogger

vars == << pc, cmd, an, fs, req, nreq, ideal, ret, log >>

\* bounds of the model
MaxRequests == 2
NumHandlers == 2
MaxCalls == 2
MaxPieces == 4

Handlers == 1..NumHandlers

\* the analysed program: the initial packages, and with their dependencies
ThePkgs ==
    << P("app", "main", TRUE), P("a/util", "util", FALSE), P("b/util", "util", FALSE),
       P("app/lib", "lib", FALSE) >>

TheProg == ThePkgs \o << P("fmt", "fmt", FALSE) >>

LoadOK == [err |-> "", pkgErrors |-> FALSE, prog |-> TheProg, pkgs |-> ThePkgs]

Loads ==
    { LoadOK,
      [err |-> "no packages", pkgErrors |-> FALSE, prog |-> << >>, pkgs |-> << >>],
      [err |-> "", pkgErrors |-> TRUE, prog |-> << >>, pkgs |-> << >>] }

DefaultCmd ==
    [focus |-> FlagDefaults.focus, group |-> FlagDefaults.group,
     limit |-> FlagDefaults.limit, ignore |-> FlagDefaults.ignore,
     include |-> FlagDefaults.include, nostd |-> FlagDefaults.nostd,
     nointer |-> FlagDefaults.nointer, cacheDir |-> FlagDefaults.cacheDir,
     graphviz |-> FlagDefaults.graphviz, format |-> FlagDefaults.format,
     late |-> {}, nargs |-> 1, load |-> LoadOK]

\* the command lines tried: the default one, and those with one thing changed
CmdLines ==
    {DefaultCmd}
    \cup { [DefaultCmd EXCEPT ![kv[1]] = kv[2]] :
             kv \in { <<"focus", "">>, <<"group", "pkg,type">>, <<"limit", "a">>,
                      <<"include", "app, a">>, <<"cacheDir", "c">>,
                      <<"format", "png">> } }
    \cup { [DefaultCmd EXCEPT ![k] = TRUE] : k \in {"nostd", "nointer"} }
    \cup { [DefaultCmd EXCEPT !.late = {"file"}], [DefaultCmd EXCEPT !.nargs = 0],
           [DefaultCmd EXCEPT !.late = {"version"}] }
    \cup { [DefaultCmd EXCEPT !.load = l] : l \in Loads }
    \cup { [DefaultCmd EXCEPT !.cacheDir = "c", !.format = "png"] }

PlainQuery == [NoQuery EXCEPT !.path = "/"]

\* the requests tried: the plain one, those with one thing changed, and some
\* with two
Requests ==
    {PlainQuery}
    \cup { [PlainQuery EXCEPT ![kv[1]] = kv[2]] :
             kv \in { <<"path", "/callvis.svg">>, <<"path", "/favicon.ico">>,
                      <<"f", "all">>, <<"f", "lib">>, <<"f", "util">>,
                      <<"std", "1">>, <<"std", "false">>, <<"nointer", "1">>,
                      <<"refresh", "1">>, <<"group", "type">>, <<"group", "bad">>,
                      <<"group", ",">>, <<"limit", "a">>, <<"ignore", "b">>, <<"include", "app, a">>,
                      <<"format", "dot">> } }
    \cup { [PlainQuery EXCEPT ![k] = TRUE] : k \in {"rendErr", "convErr", "ioErr"} }
    \cup { [PlainQuery EXCEPT !.format = "dot", !.refresh = "1"],
           [PlainQuery EXCEPT !.format = "dot", !.f = "lib"],
           [PlainQuery EXCEPT !.format = "dot", !.rendErr = TRUE],
           [PlainQuery EXCEPT !.f = "lib", !.group = "type"],
           [PlainQuery EXCEPT !.path = "/favicon.ico", !.f = "lib", !.group = "type",
                              !.refresh = "1"] }

\* ret before any call: op is the method called, n the number of calls made,
\* img, rendErr and algo its arguments, err, path, dot and stderr what it gave,
\* was the op and err of the call before it
NoRet ==
    [op |-> "", n |-> 0, img |-> "", rendErr |-> FALSE, err |-> "", path |-> "",
     dot |-> << >>, stderr |-> << >>, was |-> << "", "" >>, algo |-> ""]

Called(op) == [NoRet EXCEPT !.op = op, !.n = ret.n + 1, !.was = << ret.op, ret.err >>]

Init ==
    /\ pc = "start"
    /\ cmd \in CmdLines
    /\ an = NewAnalysis("")
    /\ fs = NoFiles
    /\ req = [h \in Handlers |-> IdleRequest]
    /\ nreq = 0
    /\ ideal = [an |-> NewAnalysis(""), fs |-> NoFiles]
    /\ ret = NoRet
    /\ log = NoLogger

Main ==
    /\ pc = "start"
    /\ LET started(m) ==
               /\ pc' = m.pc
               /\ an' = m.an
               /\ fs' = m.fs
               /\ ideal' = [an |-> m.an, fs |-> m.fs]
       IN  started(main(cmd, fs))
    /\ log' = mainLogger(cmd)
    /\ UNCHANGED << cmd, req, nreq, ret >>

InFlight == { h \in Handlers : req[h].pc # "idle" }

\* the server accepts a request and starts handler in a goroutine of its own
ReqArrive(h, q, limit) ==
    /\ pc = "serving"
    /\ nreq < MaxRequests
    /\ Cardinality(InFlight) < limit
    /\ req[h].pc = "idle"
    /\ \A k \in Handlers : k < h => req[k].pc # "idle"
    /\ req' = [req EXCEPT ![h] = HandlerBegin(q)]
    /\ nreq' = nreq + 1
    /\ UNCHANGED << pc, cmd, an, fs, ideal, ret, log >>

World(h) == [an |-> an, fs |-> fs, flags |-> Flags(cmd), rq |-> req[h]]

\* one step of the handler of request h, on the shared session and the file system
ReqStep(h) ==
    /\ pc = "serving"
    /\ LET stepped(w) ==
               /\ an' = w.an
               /\ fs' = w.fs
               /\ req' = [req EXCEPT ![h] = w.rq]
       IN  stepped(HandlerStep(World(h)))
    /\ UNCHANGED << pc, cmd, nreq, ideal, ret, log >>

\* handler: analysis.OverrideByHTTP(r)
ReqOverride(h) ==
    /\ req[h].pc = "override"
    /\ ReqStep(h)

\* handler: analysis.FindCachedImg(), and a cached image served
ReqFind(h) ==
    /\ req[h].pc = "find"
    /\ ReqStep(h)

\* handler: analysis.ProcessListArgs()
ReqList(h) ==
    /\ req[h].pc = "list"
    /\ ReqStep(h)

\* handler: analysis.Render(...), and the graph text served for format=dot
ReqRender(h) ==
    /\ req[h].pc = "render"
    /\ ReqStep(h)

\* handler: dot.DotToImage(...)
ReqConvert(h) ==
    /\ req[h].pc = "convert"
    /\ ReqStep(h)

\* handler: analysis.CacheImg(img)
ReqCache(h) ==
    /\ req[h].pc = "cache"
    /\ ReqStep(h)

\* handler: http.ServeFile(w, r, img)
ReqServe(h) ==
    /\ req[h].pc = "serve"
    /\ ReqStep(h)

Failed(rq) == rq.panic \/ rq.status >= StatusBadRequest

\* the same request handled in the ideal session
IdealRun(rq) ==
    HandlerRun([an |-> ideal.an, fs |-> ideal.fs, flags |-> Flags(cmd),
                rq |-> HandlerBegin(rq.q)])

\* handler returns
ReqReturn(h) ==
    /\ req[h].pc = "done"
    /\ req' = [req EXCEPT ![h] = IdleRequest]
    /\ LET kept(w) == ideal' = [an |-> w.an, fs |-> w.fs]
       IN  IF Failed(req[h]) THEN ideal' = ideal ELSE kept(IdealRun(req[h]))
    /\ UNCHANGED << pc, cmd, an, fs, nreq, ret, log >>

\* the server with one request in flight at a time
Next ==
    \/ Main
    \/ \E h \in Handlers :
        \/ \E q \in Requests : ReqArrive(h, q, 1)
        \/ ReqOverride(h)
        \/ ReqFind(h)
        \/ ReqList(h)
        \/ ReqRender(h)
        \/ ReqConvert(h)
        \/ ReqCache(h)
        \/ ReqServe(h)
        \/ ReqReturn(h)

Spec == Init /\ [][Next]_vars

(***************************************************************************)
(* The methods called on their own, on a session set up as main does       *)
(***************************************************************************)

\* the session main sets up for command line c, with output format fmt
Session(c, fmt) == [main(c, NoFiles).an EXCEPT !.outputFormat = fmt]

RECURSIVE StringsOf(_, _)
StringsOf(pieces, n) ==
    IF n = 0 THEN {""}
    ELSE LET S == StringsOf(pieces, n - 1)
         IN  S \cup { s \o p : s \in S, p \in pieces }

\* the grouping strings tried: up to MaxPieces of these pieces in a row
GroupStrings == StringsOf({"pkg", "type", "bad", ",", " "}, MaxPieces)

InitList ==
    /\ pc = "call"
    /\ cmd \in { [DefaultCmd EXCEPT !.group = g, !.limit = l] :
                   g \in GroupStrings, l \in {"", "a, b"} }
    /\ an = Session(cmd, "")
    /\ fs = NoFiles
    /\ req = [h \in Handlers |-> IdleRequest]
    /\ nreq = 0
    /\ ideal = [an |-> an, fs |-> fs]
    /\ ret = NoRet
    /\ log = NoLogger

\* a.ProcessListArgs()
ListCall ==
    /\ pc = "call"
    /\ ret.n < MaxCalls
    /\ LET called(p) ==
               /\ an' = [an EXCEPT !.opts = p.opts]
               /\ ret' = [Called("ProcessListArgs") EXCEPT !.err = p.err]
       IN  called(ProcessListArgs(an.opts))
    /\ UNCHANGED << pc, cmd, fs, req, nreq, ideal, log >>

NextList == ListCall

SpecList == InitList /\ [][NextList]_vars

(***************************************************************************)
(* Claims                                                                  *)
(***************************************************************************)

\* the trimmed, non-blank, comma-separated tokens of s, in order
TokensOf(s) ==
    LET fields == Split(s, ",")
        trimmed == [i \in 1..Len(fields) |-> TrimSpace(fields[i])]
    IN  SelectSeq(trimmed, LAMBDA t : t # "")

AllIn(seq, S) == \A i \in 1..Len(seq) : seq[i] \in S

\* C1: ProcessListArgs on the grouping string of the command line: when every
\* trimmed non-blank token is pkg or type (also when there is no such token)
\* the call gives no error and the group list is exactly those tokens, in
\* order; otherwise it gives an error and the group list is still the one
\* OptsSetup made, not the tokens seen before the bad one.
C1_GroupListContract ==
    (ret.op = "ProcessListArgs" /\ ret.n = 1) =>
        IF AllIn(TokensOf(cmd.group), GroupValues)
        THEN ret.err = "" /\ an.opts.group = TokensOf(cmd.group)
        ELSE ret.err # "" /\ an.opts.group = << cmd.group >>

(***************************************************************************)
(* FindCachedImg and CacheImg called on their own                          *)
(***************************************************************************)

\* the image the converter has left in the temporary directory
TheImg == Join(TempDir, "go-callvis_export.svg")

CacheDirs == {"", "c", "/tmp/c"}
CacheFocuses == {"", "foo", "a/util", "x/"}
CacheFormats == {"svg", ""}

\* the file systems the calls start from: the image alone, with a file of the
\* looked-up path, and with a regular file where the cache directory would be
CacheFiles(a) ==
    LET img == WriteFile(NoFiles, TheImg, << "image" >>)
    IN  {img} \cup
        (IF a.opts.cacheDir = "" THEN {}
         ELSE {WriteFile(img, CachePath(a), << "old" >>),
               WriteFile(img, a.opts.cacheDir, << "file" >>)})

InitCache ==
    /\ pc = "call"
    /\ cmd \in { [DefaultCmd EXCEPT !.cacheDir = d, !.focus = f] :
                   d \in CacheDirs, f \in CacheFocuses }
    /\ \E fmt \in CacheFormats, r \in BOOLEAN :
          an = [Session(cmd, fmt) EXCEPT !.opts.refresh = r]
    /\ fs \in CacheFiles(an)
    /\ req = [h \in Handlers |-> IdleRequest]
    /\ nreq = 0
    /\ ideal = [an |-> an, fs |-> fs]
    /\ ret = NoRet
    /\ log = NoLogger

\* a.FindCachedImg()
FindCall ==
    /\ pc = "call"
    /\ ret.n < MaxCalls
    /\ ret' = [Called("FindCachedImg") EXCEPT !.path = FindCachedImg(an, fs)]
    /\ UNCHANGED << pc, cmd, an, fs, req, nreq, ideal, log >>

\* a.CacheImg(img)
CacheCall(img, ioErr) ==
    /\ pc = "call"
    /\ ret.n < MaxCalls
    /\ LET called(c) ==
               /\ fs' = c.fs
               /\ ret' = [Called("CacheImg") EXCEPT !.img = img, !.err = c.err]
       IN  called(CacheImg(an, fs, img, ioErr))
    /\ UNCHANGED << pc, cmd, an, req, nreq, ideal, log >>

NextCache ==
    \/ FindCall
    \/ \E img \in {"", TheImg, "/tmp/none.svg"}, ioErr \in BOOLEAN : CacheCall(img, ioErr)

SpecCache == InitCache /\ [][NextCache]_vars

(***************************************************************************)
(* Render called on its own                                                *)
(***************************************************************************)

\* the initial packages packages.Load may give: any of ThePkgs, in their order
PkgChoices ==
    { SelectSeq(ThePkgs, LAMBDA p : p.path \in S) :
        S \in SUBSET { ThePkgs[i].path : i \in 1..Len(ThePkgs) } }

RenderFocuses == {"", "main", "util", "lib", "zz", "app", "a/util", "x/y", "fmt"}

InitRender ==
    /\ pc = "call"
    /\ cmd \in { [DefaultCmd EXCEPT !.focus = f,
                                    !.load = [LoadOK EXCEPT !.pkgs = ps,
                                                            !.prog = ps \o << P("fmt", "fmt", FALSE) >>]] :
                   f \in RenderFocuses, ps \in PkgChoices }
    /\ an = Session(cmd, "")
    /\ fs = NoFiles
    /\ req = [h \in Handlers |-> IdleRequest]
    /\ nreq = 0
    /\ ideal = [an |-> an, fs |-> fs]
    /\ ret = NoRet
    /\ log = NoLogger

\* a.Render(...)
RenderCall(rendErr) ==
    /\ pc = "call"
    /\ ret.n < MaxCalls
    /\ LET called(r) ==
               ret' = [Called("Render") EXCEPT !.rendErr = rendErr, !.err = r.err,
                                               !.dot = r.dot, !.stderr = r.stderr]
       IN  called(Render(an, rendErr))
    /\ UNCHANGED << pc, cmd, an, fs, req, nreq, ideal, log >>

NextRender == \E rendErr \in BOOLEAN : RenderCall(rendErr)

SpecRender == InitRender /\ [][NextRender]_vars

(***************************************************************************)
(* InitializeLogger called by several goroutines                           *)
(***************************************************************************)

LogLevels == {DebugLevel, InfoLevel, WarnLevel}

InitLogger ==
    /\ pc = "call"
    /\ cmd = DefaultCmd
    /\ an = Session(cmd, "")
    /\ fs = NoFiles
    /\ req = [h \in Handlers |-> IdleRequest]
    /\ nreq = 0
    /\ ideal = [an |-> an, fs |-> fs]
    /\ ret = NoRet
    /\ log = NoLogger

\* caller k calls logger.InitializeLogger(level)
LogCall(k, level) ==
    /\ pc = "call"
    /\ log.c[k].pc = "idle"
    /\ log.c[k].n < MaxCalls
    /\ log' = LoggerCall(log, k, level)
    /\ UNCHANGED << pc, cmd, an, fs, req, nreq, ideal, ret >>

\* one step of caller k, at the place at
LogAt(k, at) ==
    /\ pc = "call"
    /\ log.c[k].pc = at
    /\ LoggerCanStep(log, k)
    /\ log' = LoggerStep(log, k)
    /\ UNCHANGED << pc, cmd, an, fs, req, nreq, ideal, ret >>

\* once.Do: the load of done
LogFast(k) == LogAt(k, "fast")

\* doSlow: o.m.Lock()
LogLock(k) == LogAt(k, "lock")

\* doSlow: the load of done under the lock
LogSlow(k) == LogAt(k, "slow")

\* f: log.NewWithOptions
LogNew(k) == LogAt(k, "new")

\* f: l.SetLevel
LogSetLevel(k) == LogAt(k, "setlevel")

\* f: singleton = &logger{l}
LogAssign(k) == LogAt(k, "assign")

\* doSlow: the deferred o.done.Store(1)
LogStore(k) == LogAt(k, "store")

\* doSlow: the deferred o.m.Unlock(), and the return
LogUnlock(k) == LogAt(k, "unlock")

NextLogger ==
    \E k \in Callers :
        \/ \E level \in LogLevels : LogCall(k, level)
        \/ LogFast(k)
        \/ LogLock(k)
        \/ LogSlow(k)
        \/ LogNew(k)
        \/ LogSetLevel(k)
        \/ LogAssign(k)
        \/ LogStore(k)
        \/ LogUnlock(k)

SpecLogger == InitLogger /\ [][NextLogger]_vars

(***************************************************************************)
(* DoAnalysis called on its own                                            *)
(***************************************************************************)

\* the packages a program may be made of: two main packages, a package named
\* main that has no func main, a library and a dependency
AnalysisPkgs ==
    << P("app", "main", TRUE), P("cmd/tool", "main", TRUE), P("x/main", "main", FALSE),
       P("a/util", "util", FALSE), P("fmt", "fmt", FALSE) >>

Reverse(seq) == [i \in 1..Len(seq) |-> seq[Len(seq) + 1 - i]]

\* what ssautil.AllPackages gives: prog.AllPackages() has no order of its own
AnalysisProgs ==
    { SelectSeq(order, LAMBDA p : p.path \in S) :
        order \in {AnalysisPkgs, Reverse(AnalysisPkgs)},
        S \in SUBSET { AnalysisPkgs[i].path : i \in 1..Len(AnalysisPkgs) } }

AnalysisLoads ==
    { [LoadOK EXCEPT !.prog = pr,
                     !.pkgs = SelectSeq(pr, LAMBDA p : p.path # "fmt")] :
        pr \in AnalysisProgs }
    \cup (Loads \ {LoadOK})

Algos == {"static", "cha", "rta", "pta"}

InitAnalysis ==
    /\ pc = "call"
    /\ cmd \in { [DefaultCmd EXCEPT !.load = l] : l \in AnalysisLoads }
    /\ an = [NewAnalysis("") EXCEPT
                !.opts = OptsSetup(cmd.cacheDir, cmd.focus, cmd.group, cmd.ignore,
                                   cmd.include, cmd.limit, cmd.nointer, FALSE,
                                   cmd.nostd, "")]
    /\ fs = NoFiles
    /\ req = [h \in Handlers |-> IdleRequest]
    /\ nreq = 0
    /\ ideal = [an |-> an, fs |-> fs]
    /\ ret = NoRet
    /\ log = NoLogger

\* a.DoAnalysis(algo, "", tests, args), the one call main makes
AnalysisCall(algo) ==
    /\ pc = "call"
    /\ ret.n = 0
    /\ LET called(d) ==
               /\ an' = d.an
               /\ ret' = [Called("DoAnalysis") EXCEPT !.algo = algo, !.err = d.err]
       IN  called(DoAnalysis(an, algo, cmd.load))
    /\ UNCHANGED << pc, cmd, fs, req, nreq, ideal, log >>

NextAnalysis == \E algo \in Algos : AnalysisCall(algo)

SpecAnalysis == InitAnalysis /\ [][NextAnalysis]_vars

(***************************************************************************)
(* The server with its handlers running concurrently                       *)
(***************************************************************************)

RaceCmds == { DefaultCmd, [DefaultCmd EXCEPT !.cacheDir = "c"] }

RaceRequests ==
    { PlainQuery, [PlainQuery EXCEPT !.f = "lib"], [PlainQuery EXCEPT !.f = "a/util"] }

InitRace ==
    /\ pc = "start"
    /\ cmd \in RaceCmds
    /\ an = NewAnalysis("")
    /\ fs = NoFiles
    /\ req = [h \in Handlers |-> IdleRequest]
    /\ nreq = 0
    /\ ideal = [an |-> NewAnalysis(""), fs |-> NoFiles]
    /\ ret = NoRet
    /\ log = NoLogger

\* net/http runs every request's handler in a goroutine of its own: any number
\* of them up to NumHandlers, their steps in any order
NextRace ==
    \/ Main
    \/ \E h \in Handlers :
        \/ \E q \in RaceRequests : ReqArrive(h, q, NumHandlers)
        \/ ReqOverride(h)
        \/ ReqFind(h)
        \/ ReqList(h)
        \/ ReqRender(h)
        \/ ReqConvert(h)
        \/ ReqCache(h)
        \/ ReqServe(h)
        \/ ReqReturn(h)

SpecRace == InitRace /\ [][NextRace]_vars

(***************************************************************************)
(* The claims                                                              *)
(***************************************************************************)

\* request h has just passed the step at
Passed(h, at) == req[h].pc = at /\ req'[h].pc # at

ListParams == {"group", "limit", "ignore", "include"}

\* C2: a handled request that carries a non-empty group, limit, ignore or
\* include parameter has, when OverrideByHTTP is through, the raw value as the
\* first element of that option list, and the handler goes on to the cache
\* lookup; whatever requests were handled before.
C2_OverrideReplacesFirst ==
    [][\A h \in Handlers :
          Passed(h, "override") =>
              /\ req'[h].pc = "find"
              /\ ~req'[h].panic
              /\ \A k \in ListParams :
                    req[h].q[k] # "" =>
                        Len(an'.opts[k]) > 0 /\ an'.opts[k][1] = req[h].q[k]]_vars

\* what the caller of a request, and the renderer, got
Outcome(rq) == [status |-> rq.status, panic |-> rq.panic, body |-> rq.body,
                output |-> rq.output]

NoOverrides(q) ==
    /\ \A k \in ListParams : q[k] = ""
    /\ q.f = "" /\ q.std = "" /\ q.nointer = "" /\ q.refresh = ""

\* C3: a request without query overrides has the outcome (status, body, and
\* the options its graph was rendered with) it has in the session that the
\* failed requests never reached.
C3_FailuresLeaveOthersAlone ==
    \A h \in Handlers :
        (req[h].pc = "done" /\ NoOverrides(req[h].q)) =>
            Outcome(req[h]) = Outcome(IdealRun(req[h]).rq)

\* C4: OverrideByHTTP, from any options: f=all empties focus, another
\* non-empty f becomes the focus, no f leaves it; a non-empty std clears nostd,
\* a non-empty nointer sets nointer, a non-empty refresh sets refresh, and an
\* empty one leaves its flag alone.
C4_ScalarOverrides ==
    [][\A h \in Handlers :
          Passed(h, "override") =>
              /\ req[h].q.f = "all" => an'.opts.focus = ""
              /\ req[h].q.f \notin {"", "all"} => an'.opts.focus = req[h].q.f
              /\ req[h].q.f = "" => an'.opts.focus = an.opts.focus
              /\ an'.opts.nostd = (an.opts.nostd /\ req[h].q.std = "")
              /\ an'.opts.nointer = (an.opts.nointer \/ req[h].q.nointer # "")
              /\ an'.opts.refresh = (an.opts.refresh \/ req[h].q.refresh # "")]_vars

\* C4 witness: std=false has cleared a nostd set on the command line
C4_Witness ==
    \E h \in Handlers :
        /\ req[h].pc = "find"
        /\ req[h].q.std = "false"
        /\ cmd.nostd
        /\ ~an.opts.nostd

\* C7: while the server runs with a cache directory, the session's output
\* format, the extension of the cache key, is the format flag, the format the
\* handler hands to the image converter.
C7_SessionFormatIsFlagFormat ==
    (pc = "serving" /\ an.opts.cacheDir # "") =>
        /\ an.outputFormat = Flags(cmd).format
        /\ CachePath(an) =
              Join(an.opts.cacheDir, FocusOrAll(an.opts) \o "." \o Flags(cmd).format)

\* C10: a handled request with format=dot whose Render succeeds is answered
\* 200 with the graph text; it never gets to the image conversion or the cache
\* write, and from its Render on the file system stays as it is.
C10_DotIsRawText ==
    /\ [](\A h \in Handlers :
            req[h].q.format = "dot" =>
                /\ req[h].pc \notin {"convert", "cache", "serve"}
                /\ (req[h].pc = "done" /\ req[h].output # << >>) =>
                       /\ req[h].status = StatusOK
                       /\ req[h].body = DotBody(req[h].output)
                       /\ req[h].img = "")
    /\ [][\A h \in Handlers :
            (req[h].q.format = "dot" /\ req[h].pc \in {"render", "done"}) =>
                fs' = fs]_vars

\* C10 witness: graph text served although the image of this focus is cached
C10_Witness ==
    \E h \in Handlers :
        /\ req[h].pc = "done"
        /\ req[h].q.format = "dot"
        /\ req[h].body.kind = "dot"
        /\ req[h].body.data # << >>
        /\ pathExists(fs, CachePath(an))

\* <cacheDir>/<focusOrAll>.<outputFormat>, written out
KeyPath(a) ==
    a.opts.cacheDir \o "/" \o (IF a.opts.focus = "" THEN "all" ELSE a.opts.focus)
        \o "." \o a.outputFormat

\* the step is a call of op
Calls(op) == ret'.op = op /\ ret'.n = ret.n + 1

\* C5: FindCachedImg gives "" when the cache directory is empty or refresh is
\* set, whatever is on disk; otherwise <cacheDir>/<focusOrAll>.<outputFormat>, as
\* filepath.Join cleans it, if that path exists and "" if not; the call changes
\* neither options nor files.
C5_FindCachedImgContract ==
    /\ [](ret.op = "FindCachedImg" =>
            ret.path = IF an.opts.cacheDir = "" \/ an.opts.refresh THEN ""
                       ELSE IF Clean(KeyPath(an)) \in DOMAIN fs THEN Clean(KeyPath(an))
                       ELSE "")
    /\ [][Calls("FindCachedImg") => an' = an /\ fs' = fs]_vars

\* C5 witness: nothing returned under refresh although the file is there
C5_Witness ==
    /\ ret.op = "FindCachedImg"
    /\ ret.path = ""
    /\ an.opts.cacheDir # ""
    /\ an.opts.refresh
    /\ Clean(KeyPath(an)) \in DOMAIN fs

\* C6: CacheImg with an empty cache directory or image path gives no error and
\* writes nothing; otherwise, when it gives no error, the image is the regular
\* file <cacheDir>/<focusOrAll>.<outputFormat>, no other entry that was there
\* has changed, and FindCachedImg called next, refresh unset, gives that path.
C6_CacheWritesWhatFindLooksUp ==
    [][Calls("CacheImg") =>
          IF an.opts.cacheDir = "" \/ ret'.img = ""
          THEN ret'.err = "" /\ fs' = fs
          ELSE ret'.err = "" =>
                  /\ IsRegular(fs', KeyPath(an))
                  /\ ReadFile(fs', KeyPath(an)) = ReadFile(fs, ret'.img)
                  /\ \A p \in DOMAIN fs : p # Clean(KeyPath(an)) => fs'[p] = fs[p]
                  /\ ~an.opts.refresh => FindCachedImg(an', fs') = Clean(KeyPath(an))]_vars

Named(pkgs, name) == { pkgs[i].path : i \in { j \in 1..Len(pkgs) : pkgs[j].name = name } }

Paths(pkgs) == { pkgs[i].path : i \in 1..Len(pkgs) }

\* Render went on to PrintOutput with focus package path ("" for none)
RenderedWith(path) ==
    IF ret.rendErr THEN HasSubstr(ret.err, "processing failed") /\ ret.dot = << >>
    ELSE ret.err = "" /\ Len(ret.dot) = 1 /\ ret.dot[1].focusPkg = path

FocusError(msg) == ret.err = msg /\ ret.dot = << >>

\* C8: Render with an empty focus renders without a focus package; a focus that
\* is the import path of a package of the program resolves to it; otherwise one
\* with a "/" fails with a focus error and nothing is searched by name; otherwise
\* no initial package of that name is a not-found error, several are an
\* ambiguity error, and the only one is the focus package.
C8_FocusResolution ==
    ret.op = "Render" =>
        LET focus == an.opts.focus
            named == Named(an.pkgs, focus)
        IN  IF focus = "" THEN RenderedWith("") /\ ret.stderr = << >>
            ELSE IF focus \in Paths(an.prog) THEN RenderedWith(focus)
            ELSE IF \E i \in 1..Len(focus) : Char(focus, i) = "/"
                 THEN FocusError("focus failed: <nil>") /\ ret.stderr = << >>
            ELSE IF named = {}
                 THEN FocusError("focus failed, could not find package: " \o focus)
            ELSE IF Cardinality(named) > 1
                 THEN FocusError("focus failed, found multiple packages with name: "
                                 \o focus)
            ELSE \E path \in named : RenderedWith(path)

\* C8 witness: focus util, a/util the only package of the name, resolved to it
C8_Witness ==
    /\ ret.op = "Render"
    /\ an.opts.focus = "util"
    /\ Named(an.pkgs, "util") = {"a/util"}
    /\ ret.err = ""
    /\ Len(ret.dot) = 1
    /\ ret.dot[1].focusPkg = "a/util"

\* the focus is the bare name of two or more initial packages, and no import path
Ambiguous ==
    /\ an.opts.focus # ""
    /\ an.opts.focus \notin Paths(an.prog)
    /\ \A i \in 1..Len(an.opts.focus) : Char(an.opts.focus, i) # "/"
    /\ Cardinality(Named(an.pkgs, an.opts.focus)) >= 2

\* C9 as stated: the message of the ambiguity error holds every candidate path.
C9_MessageEnumeratesPaths ==
    (ret.op = "Render" /\ Ambiguous) =>
        /\ ret.err # ""
        /\ \A path \in Named(an.pkgs, an.opts.focus) : HasSubstr(ret.err, path)

\* C9: the message of the ambiguity error names the bare name only, and the
\* candidate paths are the lines written to os.Stderr, one " - <path>" each, in
\* the order of the packages.
C9_PathsGoToStderr ==
    (ret.op = "Render" /\ Ambiguous) =>
        /\ ret.err = "focus failed, found multiple packages with name: " \o an.opts.focus
        /\ \A path \in Named(an.pkgs, an.opts.focus) : ~HasSubstr(ret.err, path)
        /\ { ret.stderr[i] : i \in 1..Len(ret.stderr) }
              = { " - " \o path : path \in Named(an.pkgs, an.opts.focus) }
        /\ Len(ret.stderr) = Cardinality(Named(an.pkgs, an.opts.focus))
        /\ \A i, j \in 1..Len(ret.stderr) :
              i < j => \E k, l \in 1..Len(an.pkgs) :
                          /\ k < l
                          /\ ret.stderr[i] = " - " \o an.pkgs[k].path
                          /\ ret.stderr[j] = " - " \o an.pkgs[l].path

\* C9 witness: focus util with a/util and b/util loaded
C9_Witness ==
    /\ ret.op = "Render"
    /\ Ambiguous
    /\ Named(an.pkgs, an.opts.focus) = {"a/util", "b/util"}
    /\ ret.stderr = << " - a/util", " - b/util" >>

\* the focus of the session resolves to a package, or is empty
Resolvable ==
    \/ an.opts.focus = ""
    \/ an.opts.focus \in Paths(an.prog)
    \/ /\ \A i \in 1..Len(an.opts.focus) : Char(an.opts.focus, i) # "/"
       /\ Cardinality(Named(an.pkgs, an.opts.focus)) = 1

\* the grouping string the session holds has a token outside {"pkg", "type"}
BadGroup ==
    /\ Len(an.opts.group) > 0
    /\ ~AllIn(TokensOf(an.opts.group[1]), GroupValues)

\* C11: a request that fails on an invalid group token or on an ambiguous focus
\* name is answered 400; one that fails in the renderer or in the image
\* conversion is answered 500.
C11_ErrorStatuses ==
    [][\A h \in Handlers :
          /\ (Passed(h, "list") /\ BadGroup) =>
                 req'[h].pc = "done" /\ req'[h].status = StatusBadRequest
          /\ (Passed(h, "render") /\ Ambiguous) =>
                 req'[h].pc = "done" /\ req'[h].status = StatusBadRequest
          /\ (Passed(h, "render") /\ Resolvable /\ req[h].q.rendErr) =>
                 req'[h].pc = "done" /\ req'[h].status = StatusInternalServerError
          /\ (Passed(h, "convert") /\ req[h].q.convErr) =>
                 req'[h].pc = "done" /\ req'[h].status = StatusInternalServerError]_vars

\* the path is neither "/" nor one ending in ".svg"
NotHandled(path) ==
    /\ path # "/"
    /\ ~(Len(path) >= 4 /\ Sub(path, Len(path) - 3, Len(path)) = ".svg")

\* C12: a request whose path is neither "/" nor ends in ".svg" is answered 404
\* at once, with nothing rendered or converted, and from its arrival to its
\* return the shared options and the files stay as they are.
C12_NotFoundTouchesNothing ==
    /\ [](\A h \in Handlers :
            (req[h].pc # "idle" /\ NotHandled(req[h].q.path)) =>
                /\ req[h].pc = "done"
                /\ req[h].status = StatusNotFound
                /\ ~req[h].panic
                /\ req[h].output = << >>
                /\ req[h].img = "")
    /\ [][\A h \in Handlers :
            \/ req[h].pc # "idle" /\ NotHandled(req[h].q.path)
            \/ req'[h].pc # "idle" /\ NotHandled(req'[h].q.path)
            => an' = an /\ fs' = fs]_vars

\* C12 witness: answered 404, its f, group and refresh not in the options
C12_Witness ==
    \E h \in Handlers :
        /\ req[h].pc = "done"
        /\ req[h].status = StatusNotFound
        /\ req[h].q.f = "lib"
        /\ req[h].q.group = "type"
        /\ req[h].q.refresh # ""
        /\ an.opts.focus # "lib"
        /\ an.opts.group # << "type" >>
        /\ ~an.opts.refresh

\* caller k has returned from a call of InitializeLogger
Returned(k) == log.c[k].pc = "idle" /\ log.c[k].n > 0

\* C13: whatever the calls of InitializeLogger, their levels and their
\* interleaving: at most one logger is ever created and its level set once, by
\* one call; once singleton is set, it and its level stay; and a call that has
\* returned has left the singleton set and configured.
C13_LoggerConfiguredOnce ==
    /\ [](/\ Len(log.loggers) <= 1
          /\ \A i \in 1..Len(log.loggers) : log.loggers[i].sets <= 1
          /\ Cardinality({ k \in Callers : log.c[k].l # 0 }) <= 1
          /\ \A k \in Callers :
                Returned(k) =>
                    /\ log.singleton = 1
                    /\ log.loggers[1].sets = 1)
    /\ [][log.singleton # 0 =>
              /\ log'.singleton = log.singleton
              /\ log'.loggers = log.loggers]_vars

\* C13 witness: both callers have returned, the second with another level, and
\* the logger has the level of the call that created it
C13_Witness ==
    /\ \A k \in Callers : Returned(k)
    /\ \E k, j \in Callers :
          /\ log.c[k].l = 1
          /\ log.c[j].l = 0
          /\ log.c[j].level # log.c[k].level
          /\ log.loggers[1].level = log.c[k].level

\* C14: once main is through its startup: a command line that gives an output
\* file name (and one package that loads) has ended in the one-shot path, a
\* <file>.gv written if it ended well, and is not serving; the server runs only
\* for a command line without a file name; and a command line with -version has
\* printed the version and exited 0.
C14_ModeDispatch ==
    pc # "start" =>
        /\ ("file" \in cmd.late /\ cmd.nargs = 1 /\ cmd.load = LoadOK) =>
              /\ pc \in {"exit0", "exit1"}
              /\ pc = "exit0" => \E path \in DOMAIN fs : HasSuffix(path, ".gv")
        /\ pc = "serving" => "file" \notin cmd.late
        /\ "version" \in cmd.late => pc = "exit0"

\* what DoAnalysis assigns
Analysed(a) == << a.prog, a.pkgs, a.mainPkg, a.callgraph >>

\* C15: the server runs, and requests arrive, only after an analysis that
\* succeeded: the session then holds the program and the packages loaded and a
\* call graph; a load that fails ends the process with status 1 and no request
\* is ever received; and after main's startup no step, of any request, changes
\* the session's program, packages, main package or call graph.
C15_AnalysisOnceBeforeServing ==
    /\ [](/\ pc = "serving" =>
                /\ cmd.load.err = "" /\ ~cmd.load.pkgErrors
                /\ an.prog = cmd.load.prog
                /\ an.pkgs = cmd.load.pkgs
                /\ an.callgraph # NewAnalysis("").callgraph
          /\ (pc # "start" /\ cmd.late = {} /\ cmd.nargs = 1
                /\ (cmd.load.err # "" \/ cmd.load.pkgErrors)) => pc = "exit1"
          /\ pc # "serving" => nreq = 0 /\ \A h \in Handlers : req[h].pc = "idle")
    /\ [][pc # "start" => Analysed(an') = Analysed(an)]_vars

\* C15 witness: a request rendered and answered on the analysis main has made
C15_Witness ==
    /\ pc = "serving"
    /\ an.prog = TheProg
    /\ \E h \in Handlers :
          /\ req[h].pc = "done"
          /\ req[h].status = StatusOK
          /\ req[h].output # << >>
          /\ req[h].q.group = "type"

\* the places in the program of the packages named main that have a func main
MainsAt(prog) == { i \in 1..Len(prog) : prog[i].name = "main" /\ prog[i].hasMain }

Unassigned == Analysed(an) = Analysed(NewAnalysis(""))

\* C16: DoAnalysis on a program that loads: with rta and no package named main
\* that has a func main it fails with "no main packages"; with rta and one or
\* more of them the first in the program's order is the main package and the
\* roots are the main functions of all of them, each once; with static or cha
\* there is no main package; any other algorithm is an invalid-configuration
\* error; and after every failure, a failed load too, program, packages, main
\* package and call graph are unassigned.
C16_AlgorithmSelection ==
    ret.op = "DoAnalysis" =>
        LET prog  == cmd.load.prog
            mains == MainsAt(prog)
        IN  /\ ret.err # "" => Unassigned
            /\ (cmd.load.err # "" \/ cmd.load.pkgErrors) => ret.err # ""
            /\ (cmd.load.err = "" /\ ~cmd.load.pkgErrors) =>
                  IF ret.algo = "rta"
                  THEN IF mains = {} THEN ret.err = "no main packages"
                       ELSE /\ ret.err = ""
                            /\ \E i \in mains :
                                  /\ \A j \in mains : i <= j
                                  /\ an.mainPkg = prog[i].path
                            /\ Len(an.callgraph.roots) = Cardinality(mains)
                            /\ { an.callgraph.roots[i] : i \in 1..Len(an.callgraph.roots) }
                                  = { prog[i].path : i \in mains }
                            /\ an.prog = prog /\ an.pkgs = cmd.load.pkgs
                  ELSE IF ret.algo \in {"static", "cha"}
                       THEN /\ ret.err = ""
                            /\ an.mainPkg = ""
                            /\ an.callgraph = [algo |-> ret.algo, roots |-> << >>]
                            /\ an.prog = prog /\ an.pkgs = cmd.load.pkgs
                  ELSE HasSubstr(ret.err, "invalid call graph type")

\* C16 witness: rta on a program with two main packages, cmd/tool met first
C16_Witness ==
    /\ ret.op = "DoAnalysis"
    /\ ret.algo = "rta"
    /\ ret.err = ""
    /\ an.mainPkg = "cmd/tool"
    /\ an.callgraph.roots = << "cmd/tool", "app" >>
    /\ \E i \in 1..Len(an.prog) : an.prog[i].path = "x/main"

\* C17: the grouping list of every graph text rendered for a request holds
\* only "pkg" and "type"; and a request whose grouping string has another token
\* ends at ProcessListArgs, with a configuration error, before any rendering.
C17_GroupingInvariant ==
    /\ [](\A h \in Handlers :
            req[h].output # << >> => AllIn(req[h].output[1].group, GroupValues))
    /\ [][\A h \in Handlers :
            (Passed(h, "list") /\ BadGroup) =>
                /\ req'[h].pc = "done"
                /\ req'[h].status = StatusBadRequest
                /\ req'[h].output = << >>]_vars

\* the import path of the package the session's focus stands for now, "" for
\* an empty focus
FocusNow ==
    IF an.opts.focus = "" \/ an.opts.focus \in Paths(an.prog) THEN { an.opts.focus }
    ELSE Named(an.pkgs, an.opts.focus)

\* the one path every converted image of the server is written to
ExportPath == "/tmp/go-callvis_export." \o Flags(cmd).format

\* C18: with handlers running concurrently nothing keeps a request's options
\* apart: a request renders with the focus the session holds at its Render
\* step and caches under the focus it holds at its CacheImg step, whichever
\* request has set it; and every request's converted image is written to the
\* same path.
C18_NoIsolation ==
    /\ [](\A h \in Handlers :
            req[h].pc \in {"cache", "serve"} => req[h].img = ExportPath)
    /\ [][\A h \in Handlers :
            /\ (Passed(h, "render") /\ req'[h].output # << >>) =>
                   req'[h].output[1].focusPkg \in FocusNow
            /\ (Passed(h, "convert") /\ req'[h].pc = "cache") =>
                   ReadFile(fs', ExportPath) = << [format |-> Flags(cmd).format,
                                                    dot |-> req[h].output] >>
            /\ (Passed(h, "cache") /\ req'[h].pc = "serve" /\ an.opts.cacheDir # "") =>
                   ReadFile(fs', CacheFilePath(an)) = ReadFile(fs, ExportPath)]_vars

\* C18 witness: A (f=lib) and B (f=a/util) in flight together, A's graph
\* rendered with the focus B has set, and both images at the same path
C18_Witness ==
    \E a, b \in Handlers :
        /\ a # b
        /\ req[a].q.f = "lib"
        /\ req[b].q.f = "a/util"
        /\ req[a].pc \in {"cache", "serve", "done"}
        /\ req[b].pc \in {"cache", "serve", "done"}
        /\ req[a].output # << >>
        /\ req[a].output[1].focusPkg = "a/util"
        /\ req[a].img # ""
        /\ req[a].img = req[b].img

Lists(o) == << o.group, o.ignore, o.include, o.limit >>

\* C19: a second call of ProcessListArgs, following a call that succeeded with
\* no override in between, succeeds as well and leaves the group, ignore,
\* include and limit lists as the first call produced them.
C19_ListArgsIdempotent ==
    [][(Calls("ProcessListArgs") /\ ret.op = "ProcessListArgs" /\ ret.err = "") =>
            /\ ret'.err = ""
            /\ Lists(an'.opts) = Lists(an.opts)]_vars

\* C20: while the server runs no step clears refresh or nointer once set, nor
\* sets nostd once cleared; and a request that comes to FindCachedImg with
\* refresh set gets "" from it and goes on to render: it is not served from
\* the cache.
C20_OverridesAreOneWay ==
    [][pc = "serving" =>
          /\ an.opts.refresh => an'.opts.refresh
          /\ an.opts.nointer => an'.opts.nointer
          /\ ~an.opts.nostd => ~an'.opts.nostd
          /\ \A h \in Handlers :
                (Passed(h, "find") /\ an.opts.refresh) =>
                    /\ FindCachedImg(an, fs) = ""
                    /\ req'[h].pc = "list"
                    /\ req'[h].img = ""]_vars

\* C20 witness: a request without the refresh parameter, after one that set
\* it, has gone past the cache although its image is cached
C20_Witness ==
    \E h \in Handlers :
        /\ req[h].pc = "list"
        /\ req[h].q.refresh = ""
        /\ an.opts.refresh
        /\ FindCachedImg([an EXCEPT !.opts.refresh = FALSE], fs) # ""

\* the focus a request will look the cache up with: its own f, or the session's
EffectiveFocus(h) ==
    IF req[h].q.f = "all" THEN ""
    ELSE IF req[h].q.f # "" THEN req[h].q.f ELSE an.opts.focus

\* an image is in the cache for focus f
CachedFor(f) ==
    /\ an.opts.cacheDir # ""
    /\ pathExists(fs, KeyPath([an EXCEPT !.opts.focus = f]))

\* C21: with caching enabled and refresh unset, a handled request whose
\* effective focus has an image in the cache gets through OverrideByHTTP with
\* its scalar overrides written to the session's options and is then answered
\* 200 with that cached file, whatever its group, limit, ignore, include, std
\* and nointer parameters; it goes from the cache lookup straight to its end,
\* with no ProcessListArgs, Render, conversion or CacheImg, and the lookup
\* leaves options and files as they are.
C21_CacheKeyIsFocusAndFormat ==
    [][\A h \in Handlers :
          /\ (/\ Passed(h, "override")
              /\ CachedFor(EffectiveFocus(h))
              /\ ~an.opts.refresh
              /\ req[h].q.refresh = "") =>
                 /\ req'[h].pc = "find"
                 /\ ~req'[h].panic
                 /\ an'.opts.focus = EffectiveFocus(h)
                 /\ an'.opts.nostd = (an.opts.nostd /\ req[h].q.std = "")
                 /\ an'.opts.nointer = (an.opts.nointer \/ req[h].q.nointer # "")
                 /\ fs' = fs
          /\ (/\ Passed(h, "find")
              /\ CachedFor(an.opts.focus)
              /\ ~an.opts.refresh) =>
                 /\ req'[h].pc = "done"
                 /\ req'[h].status = StatusOK
                 /\ req'[h].body = FileBody(fs, Clean(KeyPath(an)))
                 /\ req'[h].output = << >>
                 /\ an' = an
                 /\ fs' = fs]_vars

====
